---- MODULE Spec2Model ----
(***************************************************************************)
(* State-machine model of the BlockBoard message wall client               *)
(* (src/src/App.tsx): wallet session, contract reads, the feed window,     *)
(* the post flow, the filter and the toast channel, together with the      *)
(* part of the environment they talk to (the message log of the contract,  *)
(* the wallet provider and the browser's timers).                          *)
(*                                                                         *)
(* One action is one run-to-completion turn of the JavaScript event loop:  *)
(* an event handler, or the continuation of an async function from one     *)
(* await to the next, including the continuations that become runnable in  *)
(* the same turn (an awaited getAllMessages() finishing resumes            *)
(* postMessage at once).                                                   *)
(***************************************************************************)
EXTENDS Integers, Sequences, FiniteSets, TLC

\* ------------------------------------------------------------------------
\* Bounds of the model
\* ------------------------------------------------------------------------
MaxTx == 1           \* transactions the network includes in one behaviour
MaxConnect == 1      \* eth_requestAccounts requests in flight at once
MaxFetch == 2        \* slots for getAllMessages calls in flight
MaxPost == 2         \* slots for postMessage calls in flight
MaxCount == 55       \* largest log length of the window specification

\* ------------------------------------------------------------------------
\* Program constants
\* ------------------------------------------------------------------------
WINDOW == 50         \* Math.max(0, count - 50)
TOAST_DELAY == 3     \* setTimeout(..., 3000), in units of 1000 ms
MS_PER_SECOND == 1000 \* Number(msg.timestamp) * 1000

\* ------------------------------------------------------------------------
\* Values
\* ------------------------------------------------------------------------
\* JavaScript null and undefined; strings are sequences of characters, so
\* both are comparable with every string and equal to none.
NULL == <<"null">>
UNDEFINED == <<"undefined">>

Truthy(v) == v # NULL /\ v # UNDEFINED /\ v # <<>>

\* Accounts as the wallet reports them (lower case) ...
U1 == <<"0", "x", "a", "b">>
U2 == <<"0", "x", "c", "d">>
Users == {U1, U2}
\* ... and the account lists eth_requestAccounts, eth_accounts and the
\* accountsChanged event carry.
AccountLists == {<<>>, <<U1>>, <<U2, U1>>}

LowerChar(c) ==
    CASE c = "A" -> "a"
      [] c = "B" -> "b"
      [] c = "C" -> "c"
      [] c = "D" -> "d"
      [] OTHER -> c

UpperChar(c) ==
    CASE c = "a" -> "A"
      [] c = "b" -> "B"
      [] c = "c" -> "C"
      [] c = "d" -> "D"
      [] OTHER -> c

\* Variant: the comparison keeps the case of the letters
toLowerCase_KeepsCase(s) == s

\* String.prototype.toLowerCase
toLowerCase(s) == [i \in DOMAIN s |-> LowerChar(s[i])]

\* a?.toLowerCase(): undefined when a is null or undefined
OptLowerCase(a) == IF a = NULL \/ a = UNDEFINED THEN UNDEFINED ELSE toLowerCase(a)

\* The mixed-case (checksummed) form in which the contract interface returns
\* an address: here the first hex letter is upper case.
ChainAddress(a) == [i \in DOMAIN a |-> IF i = 3 THEN UpperChar(a[i]) ELSE a[i]]

OwnerAddress == ChainAddress(U1)

\* String.prototype.trim over the characters of the model
IsSpace(c) == c = " "

RECURSIVE TrimStart(_)
TrimStart(s) ==
    IF s = <<>> THEN <<>>
    ELSE IF IsSpace(Head(s)) THEN TrimStart(Tail(s))
    ELSE s

RECURSIVE TrimEnd(_)
TrimEnd(s) ==
    IF s = <<>> THEN <<>>
    ELSE IF IsSpace(s[Len(s)]) THEN TrimEnd(SubSeq(s, 1, Len(s) - 1))
    ELSE s

trim(s) == TrimEnd(TrimStart(s))

\* What the user can have in the textarea
Texts == {<<>>, <<" ">>, <<"h">>}

Min(a, b) == IF a < b THEN a ELSE b
Max(a, b) == IF a > b THEN a ELSE b

\* ------------------------------------------------------------------------
\* The contract log (environment)
\* ------------------------------------------------------------------------
\* Raw entry Messages(i): sender, text, timestamp in integer seconds.
RawEntry(sender, text, index) ==
    [sender |-> sender, text |-> text, timestamp |-> index + 1]

\* Log with senders A, B, A at indices 0, 1, 2.
ScenarioLog ==
    << RawEntry(ChainAddress(U1), <<"h">>, 0),
       RawEntry(ChainAddress(U2), <<"h">>, 1),
       RawEntry(ChainAddress(U1), <<"h">>, 2) >>

InitLogs == {<<>>, ScenarioLog}

\* A log of n entries whose content is a function of the index.
SynthLog(n) ==
    [k \in 1..n |-> RawEntry(IF k % 2 = 1 THEN ChainAddress(U1) ELSE ChainAddress(U2),
                             <<"h">>, k - 1)]

\* Messages(i), i counted from 0
Messages(lg, i) == lg[i + 1]

VARIABLES
    hasProvider,        \* typeof window.ethereum !== 'undefined'
    log,                \* the contract's append-only message log
    txCount,            \* transactions included so far
    currentAccount,
    owner,
    message,            \* the textarea's text
    isSubmitting,
    isLoadingMessages,
    allMessages,        \* FeedWindow
    filterType,
    toast,
    toastTimeoutRef,    \* id of the last timer set, 0 for null
    timers,             \* the browser's pending timeouts: [id, left]
    sinceToast,         \* time since the last showToast, up to TOAST_DELAY
    fetch,              \* the getAllMessages calls in flight, by slot
    post,               \* the postMessage call in flight
    connecting,         \* number of connectWallet calls awaiting the wallet
    checkPc,            \* checkIfWalletIsConnected: "idle", "await"
    ownerPc,            \* getOwner: "idle", "await"
    emitted             \* the toasts the last turn emitted, in order, each
                        \* with whether it replaced a visible one

vars == << hasProvider, log, txCount, currentAccount, owner, message, isSubmitting,
           isLoadingMessages, allMessages, filterType, toast, toastTimeoutRef,
           timers, sinceToast, fetch, post, connecting, checkPc, ownerPc,
           emitted >>

Slots == 1..MaxFetch
PSlots == 1..MaxPost

IdleFetch == [pc |-> "idle", count |-> 0, done |-> <<>>]
IdlePost == [pc |-> "Idle", msg |-> <<>>, signer |-> NULL, mined |-> FALSE, slot |-> 0]

\* ------------------------------------------------------------------------
\* Notification channel
\* ------------------------------------------------------------------------
ToastSys == [toast |-> toast, ref |-> toastTimeoutRef, timers |-> timers,
             since |-> sinceToast, emitted |-> <<>>]

TimerIds(T) == {t.id : t \in T}

\* setTimeout returns an id no pending timer has
NewTimerId(T) == CHOOSE i \in 1..(Cardinality(T) + 1) :
                    /\ i \notin TimerIds(T)
                    /\ \A j \in 1..(i - 1) : j \in TimerIds(T)

\* clearTimeout(id)
clearTimeout(T, id) == {t \in T : t.id # id}

\* Variant: the pending timer is not cleared
showToastOn_NoClear(S, type, msg) ==
    LET id == NewTimerId(S.timers)
    IN  [toast |-> [show |-> TRUE, type |-> type, msg |-> msg],
         ref |-> id,
         timers |-> S.timers \cup {[id |-> id, left |-> TOAST_DELAY]},
         since |-> 0,
         emitted |-> Append(S.emitted, [type |-> type, msg |-> msg,
                                        replaced |-> S.toast.show])]

\* showToast(type, msg) applied to the toast state S
showToastOn(S, type, msg) ==
    LET cleared == IF S.ref # 0 THEN clearTimeout(S.timers, S.ref) ELSE S.timers
        id == NewTimerId(cleared)
    IN  [toast |-> [show |-> TRUE, type |-> type, msg |-> msg],
         ref |-> id,
         timers |-> cleared \cup {[id |-> id, left |-> TOAST_DELAY]},
         since |-> 0,
         emitted |-> Append(S.emitted, [type |-> type, msg |-> msg,
                                        replaced |-> S.toast.show])]

\* A turn leaves the toast state S behind
SetToastSys(S) ==
    /\ toast' = S.toast
    /\ toastTimeoutRef' = S.ref
    /\ timers' = S.timers
    /\ sinceToast' = S.since
    /\ emitted' = S.emitted

\* A turn that calls showToast(type, msg) once
showToast(type, msg) == SetToastSys(showToastOn(ToastSys, type, msg))

\* A turn that does not touch the toast
NoToast == SetToastSys(ToastSys)

\* ------------------------------------------------------------------------
\* Initial state: the first render and its mount effects
\* ------------------------------------------------------------------------
InitWith(logs) ==
    /\ hasProvider \in BOOLEAN
    /\ log \in logs
    /\ txCount = 0
    /\ currentAccount = NULL
    /\ owner = NULL
    /\ message = <<>>
    /\ isSubmitting = FALSE
    /\ allMessages = <<>>
    /\ filterType = "all"
    /\ toast = [show |-> FALSE, type |-> "", msg |-> ""]
    /\ toastTimeoutRef = 0
    /\ timers = {}
    /\ sinceToast = TOAST_DELAY
    /\ post = [p \in PSlots |-> IdlePost]
    /\ connecting = 0
    \* useEffect: checkIfWalletIsConnected(); getOwner(); getAllMessages();
    \* each runs to its first await when a provider exists
    /\ checkPc = IF hasProvider THEN "await" ELSE "idle"
    /\ ownerPc = IF hasProvider THEN "await" ELSE "idle"
    /\ fetch = [f \in Slots |-> IF hasProvider /\ f = 1
                                THEN [pc |-> "count", count |-> 0, done |-> <<>>]
                                ELSE IdleFetch]
    /\ isLoadingMessages = hasProvider
    /\ emitted = <<>>

Init == InitWith(InitLogs)

\* ------------------------------------------------------------------------
\* Message feed: derived view
\* ------------------------------------------------------------------------
\* Variant: without an account the filter is not applied
displayedOf_AllWithoutAccount(ft, msgs, acct) ==
    IF ft = "mine" /\ Truthy(acct)
    THEN SelectSeq(msgs, LAMBDA m : toLowerCase(m.sender) = OptLowerCase(acct))
    ELSE msgs

displayedOf(ft, msgs, acct) ==
    IF ft = "mine"
    THEN SelectSeq(msgs, LAMBDA m : toLowerCase(m.sender) = OptLowerCase(acct))
    ELSE msgs

displayedMessages == displayedOf(filterType, allMessages, currentAccount)

\* ------------------------------------------------------------------------
\* Contract read facade: getAllMessages
\* ------------------------------------------------------------------------
\* Variant: the window is one entry too long
limitOf_OneMore(count) == Max(0, count - WINDOW - 1)

limitOf(count) == Max(0, count - WINDOW)

\* Variant: the reads end up oldest first
RECURSIVE PushReads_OldestFirst(_, _, _)
PushReads_OldestFirst(i, limit, promises) ==
    IF i >= limit
    THEN PushReads_OldestFirst(i - 1, limit, <<i>> \o promises)
    ELSE promises

\* for (let i = count - 1; i >= limit; i--) promises.push(contract.Messages(i))
RECURSIVE PushReads(_, _, _)
PushReads(i, limit, promises) ==
    IF i >= limit THEN PushReads(i - 1, limit, Append(promises, i)) ELSE promises

\* The indices read, in the order of the promises
FetchIndices(count) == PushReads(count - 1, limitOf(count), <<>>)

Range(s) == {s[k] : k \in DOMAIN s}

\* results.map(msg => ({sender, text, timestamp: new Date(seconds * 1000)}))
formatMessage(raw) ==
    [sender |-> raw.sender, text |-> raw.text,
     timestamp |-> raw.timestamp * MS_PER_SECOND]

\* Variant: the results come in the order in which the reads settled
PromiseAll_SettleOrder(lg, promises, settled) ==
    [k \in 1..Len(settled) |-> Messages(lg, settled[k])]

\* await Promise.all(promises), the read of index promises[k] being the k-th
\* promise and settled the order in which the reads resolved: the value of
\* each promise stands at the position of the promise
PromiseAll(lg, promises, settled) ==
    [k \in 1..Len(promises) |-> Messages(lg, promises[k])]

\* The feed a call that counted count entries stores
formattedMessages(lg, count, settled) ==
    LET results == PromiseAll(lg, FetchIndices(count), settled)
    IN  [k \in 1..Len(results) |-> formatMessage(results[k])]

HasFreeSlot == \E f \in Slots : fetch[f].pc = "idle"

FreeSlot == CHOOSE f \in Slots :
                /\ fetch[f].pc = "idle"
                /\ \A g \in Slots : g < f => fetch[g].pc # "idle"

\* Variant: the loading flag is set before the provider is looked for
getAllMessagesCall_FlagFirst ==
    IF hasProvider
    THEN /\ fetch' = [fetch EXCEPT ![FreeSlot] = [pc |-> "count", count |-> 0, done |-> <<>>]]
         /\ isLoadingMessages' = TRUE
    ELSE /\ isLoadingMessages' = TRUE
         /\ UNCHANGED fetch

\* getAllMessages() up to its first await
getAllMessagesCall ==
    IF hasProvider
    THEN /\ fetch' = [fetch EXCEPT ![FreeSlot] = [pc |-> "count", count |-> 0, done |-> <<>>]]
         /\ isLoadingMessages' = TRUE
    ELSE UNCHANGED << fetch, isLoadingMessages >>

\* The order in which the reads of the call in slot f have resolved when the
\* last of them does: those recorded, then the ones resolving in this turn
SettleOrder(f, count) ==
    fetch[f].done \o SelectSeq(FetchIndices(count),
                               LAMBDA i : i \notin Range(fetch[f].done))

\* The post flows that await the call in slot f
Awaiting(f) == {p \in PSlots : post[p].pc = "fetch" /\ post[p].slot = f}

\* Variant: no Success toast after the refresh has reported an error
ResumePost_SilentAfterError(S, f) ==
    IF Awaiting(f) # {} /\ S.emitted = <<>>
    THEN showToastOn(S, "success", "Message posted successfully!")
    ELSE S

\* postMessage after `await getAllMessages()`: Success toast, finally
ResumePost(S, f) ==
    IF Awaiting(f) # {}
    THEN showToastOn(S, "success", "Message posted successfully!")
    ELSE S

\* Variant: a failed call stores the entries read so far
FinishFetch_StoresPartial(f, ok, count) ==
    LET S1 == IF ok THEN ToastSys
              ELSE showToastOn(ToastSys, "error", "Failed to fetch messages")
        got == SelectSeq(FetchIndices(fetch[f].count),
                         LAMBDA i : i \in Range(fetch[f].done))
    IN  /\ allMessages' = IF ok THEN formattedMessages(log, count, SettleOrder(f, count))
                          ELSE [k \in 1..Len(got) |-> formatMessage(Messages(log, got[k]))]
        /\ isLoadingMessages' = FALSE
        /\ fetch' = [fetch EXCEPT ![f] = IdleFetch]
        /\ post' = [p \in PSlots |-> IF p \in Awaiting(f) THEN IdlePost ELSE post[p]]
        /\ isSubmitting' = IF Awaiting(f) # {} THEN FALSE ELSE isSubmitting
        /\ SetToastSys(ResumePost(S1, f))
        /\ UNCHANGED << hasProvider, log, txCount, currentAccount, owner, message,
                        filterType, connecting, checkPc, ownerPc >>

\* Variant: a result older than the feed on display is dropped
FinishFetch_KeepsNewer(f, ok, count) ==
    LET S1 == IF ok THEN ToastSys
              ELSE showToastOn(ToastSys, "error", "Failed to fetch messages")
        result == formattedMessages(log, count, SettleOrder(f, count))
    IN  /\ allMessages' = IF ok /\ Len(result) >= Len(allMessages)
                          THEN result ELSE allMessages
        /\ isLoadingMessages' = FALSE
        /\ fetch' = [fetch EXCEPT ![f] = IdleFetch]
        /\ post' = [p \in PSlots |-> IF p \in Awaiting(f) THEN IdlePost ELSE post[p]]
        /\ isSubmitting' = IF Awaiting(f) # {} THEN FALSE ELSE isSubmitting
        /\ SetToastSys(ResumePost(S1, f))
        /\ UNCHANGED << hasProvider, log, txCount, currentAccount, owner, message,
                        filterType, connecting, checkPc, ownerPc >>

\* The call in slot f ends: its try block completed (ok) or its catch ran;
\* then `finally`, then the post flow awaiting it, if any, resumes.
FinishFetch(f, ok, count) ==
    LET S1 == IF ok THEN ToastSys
              ELSE showToastOn(ToastSys, "error", "Failed to fetch messages")
    IN  /\ allMessages' = IF ok THEN formattedMessages(log, count, SettleOrder(f, count)) ELSE allMessages
        /\ isLoadingMessages' = FALSE
        /\ fetch' = [fetch EXCEPT ![f] = IdleFetch]
        /\ post' = [p \in PSlots |-> IF p \in Awaiting(f) THEN IdlePost ELSE post[p]]
        /\ isSubmitting' = IF Awaiting(f) # {} THEN FALSE ELSE isSubmitting
        /\ SetToastSys(ResumePost(S1, f))
        /\ UNCHANGED << hasProvider, log, txCount, currentAccount, owner, message,
                        filterType, connecting, checkPc, ownerPc >>

\* getMessagesCount() resolves
FetchCountResolve(f) ==
    /\ fetch[f].pc = "count"
    /\ LET count == Len(log)
       IN  IF FetchIndices(count) = <<>>
           THEN FinishFetch(f, TRUE, count)
           ELSE /\ fetch' = [fetch EXCEPT ![f] = [pc |-> "reads", count |-> count, done |-> <<>>]]
                /\ NoToast
                /\ UNCHANGED << hasProvider, log, txCount, currentAccount, owner, message,
                                isSubmitting, isLoadingMessages, allMessages,
                                filterType, post, connecting, checkPc, ownerPc >>

\* getMessagesCount() rejects
FetchCountFail(f) ==
    /\ fetch[f].pc = "count"
    /\ FinishFetch(f, FALSE, 0)

\* The reads of the call in slot f that have not settled
Pending(f) ==
    IF fetch[f].pc = "reads"
    THEN Range(FetchIndices(fetch[f].count)) \ Range(fetch[f].done)
    ELSE {}

\* Messages(i) resolves; the last one to do so resolves Promise.all
FetchReadResolve(f, i) ==
    /\ fetch[f].pc = "reads"
    /\ i \in Pending(f)
    /\ IF Pending(f) = {i}
       THEN FinishFetch(f, TRUE, fetch[f].count)
       ELSE /\ fetch' = [fetch EXCEPT ![f].done = Append(@, i)]
            /\ NoToast
            /\ UNCHANGED << hasProvider, log, txCount, currentAccount, owner, message,
                            isSubmitting, isLoadingMessages, allMessages,
                            filterType, post, connecting, checkPc, ownerPc >>

\* All the reads still pending resolve, with no other event in between
FetchReadsResolve(f) ==
    /\ fetch[f].pc = "reads"
    /\ FinishFetch(f, TRUE, fetch[f].count)

\* Messages(i) rejects: Promise.all rejects at once
FetchReadFail(f, i) ==
    /\ fetch[f].pc = "reads"
    /\ i \in Pending(f)
    /\ FinishFetch(f, FALSE, 0)

\* One of the reads still pending rejects
FetchReadsFail(f) ==
    /\ fetch[f].pc = "reads"
    /\ Pending(f) # {}
    /\ FetchReadFail(f, CHOOSE i \in Pending(f) : TRUE)

\* Variant: the button is also disabled while a post is in flight
RefreshDisabled_WhileSubmitting == isLoadingMessages \/ isSubmitting

\* btn-refresh: disabled={isLoadingMessages}
RefreshDisabled == isLoadingMessages

ClickRefresh ==
    /\ ~RefreshDisabled
    /\ hasProvider => HasFreeSlot
    /\ getAllMessagesCall
    /\ NoToast
    /\ UNCHANGED << hasProvider, log, txCount, currentAccount, owner, message, isSubmitting,
                    allMessages, filterType, post, connecting, checkPc, ownerPc >>

\* ------------------------------------------------------------------------
\* Post controller: postMessage
\* ------------------------------------------------------------------------
\* Variant: the button is not disabled while a post is in flight
SubmitDisabled_NotWhileSubmitting ==
    ~Truthy(currentAccount) \/ ~Truthy(trim(message))

\* btn-submit: disabled={!currentAccount || isSubmitting || !message.trim()}
SubmitDisabled == ~Truthy(currentAccount) \/ isSubmitting \/ ~Truthy(trim(message))

\* textarea: disabled={!currentAccount || isSubmitting}
TextareaDisabled == ~Truthy(currentAccount) \/ isSubmitting

HasFreePost == \E p \in PSlots : post[p].pc = "Idle"

FreePost == CHOOSE p \in PSlots :
                /\ post[p].pc = "Idle"
                /\ \A q \in PSlots : q < p => post[q].pc # "Idle"

\* Variant: the text is not validated
postMessage_NoValidation ==
    IF hasProvider
    THEN /\ \E p \in PSlots : post[p].pc = "Idle"
         /\ isSubmitting' = TRUE
         /\ post' = [post EXCEPT ![CHOOSE p \in PSlots : post[p].pc = "Idle"] =
                        [pc |-> "signer", msg |-> message, signer |-> NULL,
                         mined |-> FALSE, slot |-> 0]]
         /\ NoToast
         /\ UNCHANGED << hasProvider, log, txCount, currentAccount, owner, message,
                         isLoadingMessages, allMessages, filterType,
                         fetch, connecting, checkPc, ownerPc >>
    ELSE /\ NoToast
         /\ UNCHANGED << hasProvider, log, txCount, currentAccount, owner, message,
                         isSubmitting, isLoadingMessages, allMessages, filterType,
                         fetch, post, connecting, checkPc, ownerPc >>

\* postMessage() up to its first await; the closure keeps the text of the
\* render in which it was created
postMessage ==
    IF ~Truthy(trim(message))
    THEN /\ showToast("error", "Message cannot be empty")
         /\ UNCHANGED << hasProvider, log, txCount, currentAccount, owner, message,
                         isSubmitting, isLoadingMessages, allMessages, filterType,
                         fetch, post, connecting, checkPc, ownerPc >>
    ELSE IF hasProvider
    THEN /\ HasFreePost
         /\ isSubmitting' = TRUE
         /\ post' = [post EXCEPT ![FreePost] =
                        [pc |-> "signer", msg |-> message, signer |-> NULL,
                         mined |-> FALSE, slot |-> 0]]
         /\ NoToast
         /\ UNCHANGED << hasProvider, log, txCount, currentAccount, owner, message,
                         isLoadingMessages, allMessages, filterType,
                         fetch, connecting, checkPc, ownerPc >>
    ELSE /\ NoToast
         /\ UNCHANGED << hasProvider, log, txCount, currentAccount, owner, message,
                         isSubmitting, isLoadingMessages, allMessages, filterType,
                         fetch, post, connecting, checkPc, ownerPc >>

\* The user presses the submit button
ClickSubmit ==
    /\ ~SubmitDisabled
    /\ postMessage

\* postMessage called with blank text, which the button never does
PostMessageBlank ==
    /\ ~Truthy(trim(message))
    /\ postMessage

\* provider.getSigner() resolves with a signer for account s;
\* contract.postMessage(message) is issued
PostSignerResolve(p, s) ==
    /\ post[p].pc = "signer"
    /\ post' = [post EXCEPT ![p].pc = "send", ![p].signer = s]
    /\ NoToast
    /\ UNCHANGED << hasProvider, log, txCount, currentAccount, owner, message, isSubmitting,
                    isLoadingMessages, allMessages, filterType, fetch,
                    connecting, checkPc, ownerPc >>

\* Variant: the catch block clears the text
PostCatch_ClearsText(p) ==
    /\ showToast("error", "Transaction failed. Check console.")
    /\ isSubmitting' = FALSE
    /\ post' = [post EXCEPT ![p] = IdlePost]
    /\ message' = <<>>
    /\ UNCHANGED << hasProvider, log, txCount, currentAccount, owner,
                    isLoadingMessages, allMessages, filterType, fetch,
                    connecting, checkPc, ownerPc >>

\* Variant: the catch block runs without the finally block
PostCatch_StaysSubmitting(p) ==
    /\ showToast("error", "Transaction failed. Check console.")
    /\ post' = [post EXCEPT ![p] = IdlePost]
    /\ UNCHANGED << hasProvider, log, txCount, currentAccount, owner, message,
                    isSubmitting, isLoadingMessages, allMessages, filterType, fetch,
                    connecting, checkPc, ownerPc >>

\* catch and finally of postMessage
PostCatch(p) ==
    /\ showToast("error", "Transaction failed. Check console.")
    /\ isSubmitting' = FALSE
    /\ post' = [post EXCEPT ![p] = IdlePost]
    /\ UNCHANGED << hasProvider, log, txCount, currentAccount, owner, message,
                    isLoadingMessages, allMessages, filterType, fetch,
                    connecting, checkPc, ownerPc >>

\* provider.getSigner() rejects
PostSignerFail(p) ==
    /\ post[p].pc = "signer"
    /\ PostCatch(p)

\* contract.postMessage(message) resolves: the transaction was accepted
PostSendResolve(p) ==
    /\ post[p].pc = "send"
    /\ post' = [post EXCEPT ![p].pc = "wait"]
    /\ showToast("loading", "Transaction submitted. Waiting for confirmation...")
    /\ UNCHANGED << hasProvider, log, txCount, currentAccount, owner, message, isSubmitting,
                    isLoadingMessages, allMessages, filterType, fetch,
                    connecting, checkPc, ownerPc >>

\* contract.postMessage(message) rejects (the user declines to sign, ...)
PostSendFail(p) ==
    /\ post[p].pc = "send"
    /\ PostCatch(p)

\* The network includes the transaction: the log gets the new entry
TxMined(p) ==
    /\ post[p].pc = "wait"
    /\ ~post[p].mined
    /\ txCount < MaxTx
    /\ txCount' = txCount + 1
    /\ log' = Append(log, RawEntry(ChainAddress(post[p].signer), post[p].msg, Len(log)))
    /\ post' = [post EXCEPT ![p].mined = TRUE]
    /\ NoToast
    /\ UNCHANGED << hasProvider, currentAccount, owner, message, isSubmitting,
                    isLoadingMessages, allMessages, filterType, fetch,
                    connecting, checkPc, ownerPc >>

\* Variant: the text is not cleared on finality
PostWaitResolve_KeepsText(p) ==
    /\ post[p].pc = "wait"
    /\ post[p].mined
    /\ HasFreeSlot
    /\ getAllMessagesCall
    /\ post' = [post EXCEPT ![p].pc = "fetch", ![p].slot = FreeSlot]
    /\ NoToast
    /\ UNCHANGED << hasProvider, log, txCount, currentAccount, owner, isSubmitting,
                    message, allMessages, filterType, connecting, checkPc, ownerPc >>

\* Variant: the Success toast does not wait for getAllMessages
PostWaitResolve_ToastBeforeFetch(p) ==
    /\ post[p].pc = "wait"
    /\ post[p].mined
    /\ HasFreeSlot
    /\ message' = <<>>
    /\ getAllMessagesCall
    /\ post' = [post EXCEPT ![p].pc = "fetch", ![p].slot = FreeSlot]
    /\ showToast("success", "Message posted successfully!")
    /\ UNCHANGED << hasProvider, log, txCount, currentAccount, owner, isSubmitting,
                    allMessages, filterType, connecting, checkPc, ownerPc >>

\* tx.wait() resolves: setMessage(""), getAllMessages() to its first await
PostWaitResolve(p) ==
    /\ post[p].pc = "wait"
    /\ post[p].mined
    /\ HasFreeSlot
    /\ message' = <<>>
    /\ getAllMessagesCall
    /\ post' = [post EXCEPT ![p].pc = "fetch", ![p].slot = FreeSlot]
    /\ NoToast
    /\ UNCHANGED << hasProvider, log, txCount, currentAccount, owner, isSubmitting,
                    allMessages, filterType, connecting, checkPc, ownerPc >>

\* tx.wait() rejects (revert, dropped transaction, network error)
PostWaitFail(p) ==
    /\ post[p].pc = "wait"
    /\ PostCatch(p)

\* ------------------------------------------------------------------------
\* Wallet session manager
\* ------------------------------------------------------------------------
\* connectWallet() up to its await
connectWallet ==
    IF hasProvider
    THEN /\ connecting < MaxConnect
         /\ connecting' = connecting + 1
         /\ NoToast
    ELSE /\ showToast("error", "Please install MetaMask")
         /\ UNCHANGED connecting

\* btn-connect is rendered only while currentAccount is falsy
ClickConnect ==
    /\ ~Truthy(currentAccount)
    /\ connectWallet
    /\ UNCHANGED << hasProvider, log, txCount, currentAccount, owner, message, isSubmitting,
                    isLoadingMessages, allMessages, filterType, fetch, post,
                    checkPc, ownerPc >>

\* accounts[0]
First(accounts) == IF Len(accounts) > 0 THEN accounts[1] ELSE UNDEFINED

\* Variant: the last account of the list is taken
ConnectResolve_LastAccount(accounts) ==
    /\ connecting > 0
    /\ connecting' = connecting - 1
    /\ currentAccount' = IF Len(accounts) > 0 THEN accounts[Len(accounts)] ELSE UNDEFINED
    /\ showToast("success", "Wallet connected successfully")
    /\ UNCHANGED << hasProvider, log, txCount, owner, message, isSubmitting,
                    isLoadingMessages, allMessages, filterType, fetch, post,
                    checkPc, ownerPc >>

\* eth_requestAccounts resolves
ConnectResolve(accounts) ==
    /\ connecting > 0
    /\ connecting' = connecting - 1
    /\ currentAccount' = First(accounts)
    /\ showToast("success", "Wallet connected successfully")
    /\ UNCHANGED << hasProvider, log, txCount, owner, message, isSubmitting,
                    isLoadingMessages, allMessages, filterType, fetch, post,
                    checkPc, ownerPc >>

\* eth_requestAccounts rejects
ConnectReject ==
    /\ connecting > 0
    /\ connecting' = connecting - 1
    /\ showToast("error", "Connection rejected")
    /\ UNCHANGED << hasProvider, log, txCount, currentAccount, owner, message, isSubmitting,
                    isLoadingMessages, allMessages, filterType, fetch, post,
                    checkPc, ownerPc >>

\* Variant: an empty list clears the account
CheckResolve_ClearsOnEmpty(accounts) ==
    /\ checkPc = "await"
    /\ checkPc' = "idle"
    /\ currentAccount' = IF Len(accounts) > 0 THEN accounts[1] ELSE NULL
    /\ NoToast
    /\ UNCHANGED << hasProvider, log, txCount, owner, message, isSubmitting,
                    isLoadingMessages, allMessages, filterType, fetch, post,
                    connecting, ownerPc >>

\* eth_accounts resolves
CheckResolve(accounts) ==
    /\ checkPc = "await"
    /\ checkPc' = "idle"
    /\ currentAccount' = IF Len(accounts) > 0 THEN accounts[1] ELSE currentAccount
    /\ NoToast
    /\ UNCHANGED << hasProvider, log, txCount, owner, message, isSubmitting,
                    isLoadingMessages, allMessages, filterType, fetch, post,
                    connecting, ownerPc >>

\* eth_accounts rejects
CheckFail ==
    /\ checkPc = "await"
    /\ checkPc' = "idle"
    /\ NoToast
    /\ UNCHANGED << hasProvider, log, txCount, currentAccount, owner, message, isSubmitting,
                    isLoadingMessages, allMessages, filterType, fetch, post,
                    connecting, ownerPc >>

\* Variant: an empty list leaves the account as it is
AccountsChanged_KeepsOnEmpty(accounts) ==
    /\ hasProvider
    /\ currentAccount' = IF Len(accounts) > 0 THEN accounts[1] ELSE currentAccount
    /\ NoToast
    /\ UNCHANGED << hasProvider, log, txCount, owner, message, isSubmitting,
                    isLoadingMessages, allMessages, filterType, fetch, post,
                    connecting, checkPc, ownerPc >>

\* window.ethereum.on('accountsChanged', ...)
AccountsChanged(accounts) ==
    /\ hasProvider
    /\ currentAccount' = IF Len(accounts) > 0 THEN accounts[1] ELSE NULL
    /\ NoToast
    /\ UNCHANGED << hasProvider, log, txCount, owner, message, isSubmitting,
                    isLoadingMessages, allMessages, filterType, fetch, post,
                    connecting, checkPc, ownerPc >>

\* ------------------------------------------------------------------------
\* Contract read facade: getOwner
\* ------------------------------------------------------------------------
\* contract.owner() resolves
OwnerResolve ==
    /\ ownerPc = "await"
    /\ ownerPc' = "idle"
    /\ owner' = OwnerAddress
    /\ NoToast
    /\ UNCHANGED << hasProvider, log, txCount, currentAccount, message, isSubmitting,
                    isLoadingMessages, allMessages, filterType, fetch, post,
                    connecting, checkPc >>

\* Variant: the failure is reported to the user
OwnerFail_ShowsToast ==
    /\ ownerPc = "await"
    /\ ownerPc' = "idle"
    /\ showToast("error", "Failed to get owner")
    /\ UNCHANGED << hasProvider, log, txCount, currentAccount, owner, message, isSubmitting,
                    isLoadingMessages, allMessages, filterType, fetch, post,
                    connecting, checkPc >>

\* contract.owner() rejects: console.error only
OwnerFail ==
    /\ ownerPc = "await"
    /\ ownerPc' = "idle"
    /\ NoToast
    /\ UNCHANGED << hasProvider, log, txCount, currentAccount, owner, message, isSubmitting,
                    isLoadingMessages, allMessages, filterType, fetch, post,
                    connecting, checkPc >>

\* ------------------------------------------------------------------------
\* View events
\* ------------------------------------------------------------------------
\* textarea onChange
TypeMessage(text) ==
    /\ ~TextareaDisabled
    /\ text # message
    /\ message' = text
    /\ NoToast
    /\ UNCHANGED << hasProvider, log, txCount, currentAccount, owner, isSubmitting,
                    isLoadingMessages, allMessages, filterType, fetch, post,
                    connecting, checkPc, ownerPc >>

\* Variant: a change of tab fetches the feed again
SetFilter_Refetches(ft) ==
    /\ ft = "mine" => Truthy(currentAccount)
    /\ hasProvider => HasFreeSlot
    /\ filterType' = ft
    /\ getAllMessagesCall
    /\ NoToast
    /\ UNCHANGED << hasProvider, log, txCount, currentAccount, owner, message, isSubmitting,
                    allMessages, post, connecting, checkPc, ownerPc >>

\* tab buttons; "My Posts" is disabled={!currentAccount}
SetFilter(ft) ==
    /\ ft = "mine" => Truthy(currentAccount)
    /\ filterType' = ft
    /\ NoToast
    /\ UNCHANGED << hasProvider, log, txCount, currentAccount, owner, message, isSubmitting,
                    isLoadingMessages, allMessages, fetch, post,
                    connecting, checkPc, ownerPc >>

\* copyAddress: the user badge or the sender of a displayed message
CopyAddress ==
    /\ Truthy(currentAccount) \/ displayedMessages # <<>>
    /\ showToast("success", "Address copied to clipboard")
    /\ UNCHANGED << hasProvider, log, txCount, currentAccount, owner, message, isSubmitting,
                    isLoadingMessages, allMessages, filterType, fetch, post,
                    connecting, checkPc, ownerPc >>

\* ------------------------------------------------------------------------
\* Time
\* ------------------------------------------------------------------------
\* One unit of time passes; a timer that is due fires first
Tick ==
    /\ \A t \in timers : t.left > 0
    /\ timers' = {[id |-> t.id, left |-> t.left - 1] : t \in timers}
    /\ sinceToast' = Min(sinceToast + 1, TOAST_DELAY)
    /\ emitted' = <<>>
    /\ UNCHANGED << hasProvider, log, txCount, currentAccount, owner, message, isSubmitting,
                    isLoadingMessages, allMessages, filterType, toast,
                    toastTimeoutRef, fetch, post, connecting, checkPc, ownerPc >>

\* The timeout callback: setToast(prev => ({...prev, show: false}))
TimerFire(t) ==
    /\ t \in timers
    /\ t.left = 0
    /\ timers' = timers \ {t}
    /\ toast' = [toast EXCEPT !.show = FALSE]
    /\ emitted' = <<>>
    /\ UNCHANGED << hasProvider, log, txCount, currentAccount, owner, message, isSubmitting,
                    isLoadingMessages, allMessages, filterType, toastTimeoutRef,
                    sinceToast, fetch, post, connecting, checkPc, ownerPc >>

\* ------------------------------------------------------------------------
\* Specifications
\* ------------------------------------------------------------------------
\* Contract reads of the feed; the reads of one call resolve together
NextFeed ==
    \/ \E f \in Slots : FetchCountResolve(f)
    \/ \E f \in Slots : FetchCountFail(f)
    \/ \E f \in Slots : FetchReadsResolve(f)
    \/ \E f \in Slots : FetchReadsFail(f)
    \/ ClickRefresh

\* The same with every read settling in a turn of its own
NextFeedReads ==
    \/ \E f \in Slots : FetchCountResolve(f)
    \/ \E f \in Slots : FetchCountFail(f)
    \/ \E f \in Slots : \E i \in Pending(f) : FetchReadResolve(f, i)
    \/ \E f \in Slots : \E i \in Pending(f) : FetchReadFail(f, i)
    \/ ClickRefresh

NextPost ==
    \/ \E t \in Texts : TypeMessage(t)
    \/ ClickSubmit
    \/ \E p \in PSlots : \E s \in Users : PostSignerResolve(p, s)
    \/ \E p \in PSlots : PostSignerFail(p)
    \/ \E p \in PSlots : PostSendResolve(p)
    \/ \E p \in PSlots : PostSendFail(p)
    \/ \E p \in PSlots : TxMined(p)
    \/ \E p \in PSlots : PostWaitResolve(p)
    \/ \E p \in PSlots : PostWaitFail(p)

\* The account as the provider reports it
NextAccount ==
    \/ \E a \in AccountLists : CheckResolve(a)
    \/ CheckFail
    \/ \E a \in AccountLists : AccountsChanged(a)

NextConnect ==
    \/ ClickConnect
    \/ \E a \in AccountLists : ConnectResolve(a)
    \/ ConnectReject
    \/ CopyAddress

NextFilter == \E ft \in {"all", "mine"} : SetFilter(ft)

NextOwner ==
    \/ OwnerResolve
    \/ OwnerFail

NextTime ==
    \/ Tick
    \/ \E t \in timers : TimerFire(t)

\* The message synchronisation and transaction controller: feed reads, the
\* post flow, the filter and the account the provider reports. Nothing in it
\* reads owner or the toast and its timer, and the connect flow only sets the
\* account, as NextAccount does; these are in SpecSession.
Next == NextFeed \/ NextPost \/ NextAccount \/ NextFilter

Spec == Init /\ [][Next]_vars

\* The wallet session, the owner read and the notification channel in time
NextSession ==
    NextAccount \/ NextConnect \/ NextFilter \/ NextOwner \/ NextFeed \/ NextTime

SpecSession == Init /\ [][NextSession]_vars

\* The handler specification: postMessage is also called with blank text
NextHandler == Next \/ PostMessageBlank

SpecHandler == Init /\ [][NextHandler]_vars

\* Every read of a getAllMessages call settles in a turn of its own
NextReads == NextFeedReads \/ NextAccount \/ NextFilter

SpecReads == Init /\ [][NextReads]_vars

\* The feed reads over a log of any length up to MaxCount
InitWindow ==
    /\ InitWith({SynthLog(n) : n \in 0..MaxCount})
    /\ hasProvider

SpecWindow == InitWindow /\ [][NextFeed]_vars

\* The controller over a log that fills the window and then outgrows it
InitGrow ==
    /\ InitWith({SynthLog(WINDOW)})
    /\ hasProvider

SpecGrow == InitGrow /\ [][Next]_vars

\* getOwner() up to its await
getOwnerCall ==
    IF hasProvider THEN ownerPc' = "await" ELSE UNCHANGED ownerPc

\* getOwner is called (the model keeps one call in flight)
CallGetOwner ==
    /\ hasProvider => ownerPc = "idle"
    /\ getOwnerCall
    /\ NoToast
    /\ UNCHANGED << hasProvider, log, txCount, currentAccount, owner, message, isSubmitting,
                    isLoadingMessages, allMessages, filterType, fetch, post,
                    connecting, checkPc >>

\* checkIfWalletIsConnected() up to its await
checkIfWalletIsConnectedCall ==
    IF hasProvider THEN checkPc' = "await" ELSE UNCHANGED checkPc

\* checkIfWalletIsConnected is called (the model keeps one call in flight)
CallCheckIfWalletIsConnected ==
    /\ hasProvider => checkPc = "idle"
    /\ checkIfWalletIsConnectedCall
    /\ NoToast
    /\ UNCHANGED << hasProvider, log, txCount, currentAccount, owner, message, isSubmitting,
                    isLoadingMessages, allMessages, filterType, fetch, post,
                    connecting, ownerPc >>

\* setMessage(text): the onChange handler called whatever the textarea's state
SetMessage(text) ==
    /\ text # message
    /\ message' = text
    /\ NoToast
    /\ UNCHANGED << hasProvider, log, txCount, currentAccount, owner, isSubmitting,
                    isLoadingMessages, allMessages, filterType, fetch, post,
                    connecting, checkPc, ownerPc >>

\* postMessage called with a text that is not blank, whatever the button's
\* state
PostMessageText ==
    /\ Truthy(trim(message))
    /\ postMessage

\* The operations of the component called in a browser without a wallet
\* provider: no account is ever set there, so the textarea and the submit
\* button stay disabled and their handlers are called directly
NextNoProvider ==
    \/ ClickRefresh
    \/ CallGetOwner
    \/ CallCheckIfWalletIsConnected
    \/ \E t \in Texts : SetMessage(t)
    \/ PostMessageText
    \/ PostMessageBlank
    \/ ClickConnect
    \/ NextTime

\* No provider, over a log of any length up to MaxCount
InitNoProvider ==
    /\ InitWith({SynthLog(n) : n \in 0..MaxCount})
    /\ ~hasProvider

SpecNoProvider == InitNoProvider /\ [][NextNoProvider]_vars

\* An external call the getAllMessages call in slot f awaits settles
FetchSettles(f) ==
    \/ FetchCountResolve(f)
    \/ FetchCountFail(f)
    \/ FetchReadsResolve(f)
    \/ FetchReadsFail(f)

\* An external call the postMessage call in slot p awaits settles, or the
\* network includes its transaction
PostSettles(p) ==
    \/ \E s \in Users : PostSignerResolve(p, s)
    \/ PostSignerFail(p)
    \/ PostSendResolve(p)
    \/ PostSendFail(p)
    \/ TxMined(p)
    \/ PostWaitResolve(p)
    \/ PostWaitFail(p)

\* The flows of the controller; the filter takes no part in them
NextLive == NextFeed \/ NextPost \/ NextAccount

\* The controller when every external call eventually resolves or fails:
\* the promise a flow awaits is settled by the provider, and its
\* continuation then runs, whatever the user and the wallet do meanwhile
SpecLive ==
    /\ Init
    /\ [][NextLive]_vars
    /\ \A f \in Slots : WF_vars(FetchSettles(f))
    /\ \A p \in PSlots : WF_vars(PostSettles(p))

\* ------------------------------------------------------------------------
\* Properties
\* ------------------------------------------------------------------------
Last(s) == s[Len(s)]

EmittedTypes == [k \in DOMAIN emitted |-> emitted[k].type]

\* The toast state right after showToast(type, msg)
FreshToast(type, msg) ==
    /\ toast = [show |-> TRUE, type |-> type, msg |-> msg]
    /\ timers = {[id |-> toastTimeoutRef, left |-> TOAST_DELAY]}
    /\ sinceToast = 0

\* w is the newest-first window of the first c entries of lg
IsWindow(w, lg, c) ==
    /\ Len(w) = Min(c, WINDOW)
    /\ \A k \in 1..Len(w) :
          /\ c - k >= Max(0, c - WINDOW)
          /\ w[k].sender = Messages(lg, c - k).sender
          /\ w[k].text = Messages(lg, c - k).text
          /\ w[k].timestamp = Messages(lg, c - k).timestamp * 1000

\* The call in slot f fails in this turn
FetchFails(f) ==
    /\ fetch[f].pc # "idle"
    /\ fetch'[f] = IdleFetch
    /\ FetchCountFail(f) \/ FetchReadsFail(f)

\* The call in slot f succeeds in this turn
FetchSucceeds(f) ==
    \/ /\ fetch[f].pc = "reads"
       /\ fetch'[f] = IdleFetch
       /\ FetchReadsResolve(f)
    \/ /\ fetch[f].pc = "reads"
       /\ fetch'[f] = IdleFetch
       /\ Cardinality(Pending(f)) = 1
       /\ FetchReadResolve(f, CHOOSE i \in Pending(f) : TRUE)
    \/ /\ fetch[f].pc = "count"
       /\ fetch'[f] = IdleFetch
       /\ FetchCountResolve(f)

\* The number of entries the call in slot f counts, or has counted
Counted(f) == IF fetch[f].pc = "count" THEN Len(log) ELSE fetch[f].count

\* C1: a turn in which a read of a getAllMessages call fails (the count read
\* or any per-index read, whatever reads resolved before) leaves allMessages
\* as it was and emits the Error toast; and allMessages changes in no turn
\* but one in which a call succeeds, so no partial result is ever stored.
C1_FailedFetchKeepsFeed ==
    [][ /\ \A f \in Slots : FetchFails(f) =>
              /\ allMessages' = allMessages
              /\ EmittedTypes' = <<"error">>
              /\ FreshToast("error", "Failed to fetch messages")'
              /\ ~isLoadingMessages'
        /\ allMessages' # allMessages => \E f \in Slots : FetchSucceeds(f)
      ]_vars

\* A per-index read has just failed while the feed of an earlier call shows
C1_Witness ==
    /\ EmittedTypes = <<"error">>
    /\ toast.msg = "Failed to fetch messages"
    /\ allMessages # <<>>
    /\ \A f \in Slots : fetch[f].pc = "idle"

\* C2: a successful getAllMessages over a log of count entries stores exactly
\* min(count, 50) entries, never more than 50: the entries at indices
\* count-1, count-2, ..., max(0, count-50), in that order.
C2_WindowOfLog ==
    [][ \A f \in Slots : FetchSucceeds(f) =>
              /\ Counted(f) = Len(log)
              /\ Len(allMessages') <= 50
              /\ Len(allMessages') = IF Len(log) < 50 THEN Len(log) ELSE 50
              /\ IsWindow(allMessages', log, Len(log))
      ]_vars

\* A log of more than 50 entries was fetched
C2_Witness ==
    /\ Len(log) > 50
    /\ Len(allMessages) = 50
    /\ allMessages[1].timestamp = Len(log) * 1000
    /\ allMessages[50].timestamp = (Len(log) - 49) * 1000

ActivePosts == {p \in PSlots : post[p].pc # "Idle"}

\* C3: at most one post flow is in flight, and while one is, isSubmitting is
\* set and the submit button is disabled.
C3_OnePostInFlight ==
    /\ Cardinality(ActivePosts) <= 1
    /\ isSubmitting <=> ActivePosts # {}
    /\ ActivePosts # {} => SubmitDisabled

\* A flow awaits confirmation; only isSubmitting keeps the button disabled
C3_Witness ==
    /\ \E p \in PSlots : post[p].pc = "wait"
    /\ Truthy(currentAccount)
    /\ Truthy(trim(message))

\* The post flow in slot p fails in this turn
PostFails(p) == PostSignerFail(p) \/ PostSendFail(p) \/ PostWaitFail(p)

\* C4: a turn in which a post flow fails, at getSigner, at the write call or
\* at tx.wait, leaves the text as it was when the post was triggered, emits
\* the Error toast and returns the flow to Idle with the button enabled again
\* (as far as the account is still present).
C4_FailedPostKeepsText ==
    [][ \A p \in PSlots : PostFails(p) =>
              /\ message' = post[p].msg
              /\ Truthy(trim(message'))
              /\ EmittedTypes' = <<"error">>
              /\ FreshToast("error", "Transaction failed. Check console.")'
              /\ ActivePosts' = {}
              /\ ~isSubmitting'
              /\ Truthy(currentAccount') => ~SubmitDisabled'
      ]_vars

\* A post has just failed and the draft is still in the textarea
C4_Witness ==
    /\ EmittedTypes = <<"error">>
    /\ toast.msg = "Transaction failed. Check console."
    /\ message = <<"h">>
    /\ ActivePosts = {}
    /\ ~SubmitDisabled

\* C5: the turn in which tx.wait resolves clears the text and starts a
\* getAllMessages call, and the text is still empty when, that call over,
\* the flow returns to Idle.
C5_ConfirmedPostClearsAndFetches ==
    [][ \A p \in PSlots :
          /\ PostWaitResolve(p) =>
                /\ message' = <<>>
                /\ \E f \in Slots : /\ fetch[f].pc = "idle"
                                    /\ fetch'[f].pc = "count"
                                    /\ post'[p].slot = f
                /\ isLoadingMessages'
                /\ post'[p].pc = "fetch"
          /\ (post[p].pc = "fetch" /\ post'[p].pc # "fetch") =>
                /\ message' = <<>>
                /\ post'[p].pc = "Idle"
                /\ fetch'[post[p].slot].pc = "idle"
      ]_vars

\* A confirmed post has just returned to Idle
C5_Witness ==
    /\ emitted # <<>>
    /\ Last(emitted).type = "success"
    /\ ActivePosts = {}
    /\ message = <<>>
    /\ txCount > 0

\* C6: postMessage with blank text issues no call (no flow starts, no read
\* starts), emits the Error toast and changes nothing else.
C6_BlankPostRejected ==
    [][ PostMessageBlank =>
              /\ EmittedTypes' = <<"error">>
              /\ FreshToast("error", "Message cannot be empty")'
              /\ UNCHANGED << post, isSubmitting, message, allMessages, fetch,
                              isLoadingMessages, connecting, log, txCount,
                              currentAccount, owner, filterType >>
      ]_vars

\* postMessage was just called with a text of blanks only
C6_Witness ==
    /\ EmittedTypes = <<"error">>
    /\ toast.msg = "Message cannot be empty"
    /\ message = <<" ">>

\* C7: allMessages is always the newest-first window of a prefix of the log,
\* of at most 50 entries, and a successful call stores the window of the
\* entries it counted, so that position 0 holds the newest entry that call
\* observed, also when the log has grown since and when calls overlap.
C7_FeedIsWindow ==
    /\ [](/\ Len(allMessages) <= 50
          /\ \E c \in 0..Len(log) : IsWindow(allMessages, log, c))
    /\ [][ \A f \in Slots : FetchSucceeds(f) =>
              /\ IsWindow(allMessages', log', Counted(f))
              /\ Counted(f) > 0 =>
                    allMessages'[1].timestamp
                        = Messages(log, Counted(f) - 1).timestamp * 1000
         ]_vars

\* The feed shows the grown log while a call that counted before the log
\* grew is still in flight
C7_Witness ==
    /\ \E f \in Slots : fetch[f].pc = "reads" /\ fetch[f].count < Len(log)
    /\ Len(log) > WINDOW
    /\ Len(allMessages) = WINDOW
    /\ allMessages[1].timestamp = Len(log) * 1000

\* C8: the channel has at most one timer pending; a toast emitted while
\* another is visible replaces kind and message and leaves one timer with
\* the full delay; the toast is visible exactly until TOAST_DELAY after the
\* last showToast, whatever was left of an earlier delay.
C8_ToastReplacesAndRestarts ==
    /\ Cardinality(timers) <= 1
    /\ emitted # <<>> =>
          FreshToast(Last(emitted).type, Last(emitted).msg)
    /\ toast.show => timers = {[id |-> toastTimeoutRef, left |-> TOAST_DELAY - sinceToast]}
    /\ (toast.type # "" /\ sinceToast < TOAST_DELAY) => toast.show
    /\ ~toast.show => timers = {}

\* A toast has just replaced a visible one of another kind
C8_Witness ==
    /\ emitted # <<>>
    /\ Last(emitted).replaced
    /\ Last(emitted).type = "success"
    /\ toast.show

\* C9: with the filter on Mine and no account, nothing is displayed
C9_MineWithoutAccountIsEmpty ==
    (filterType = "mine" /\ ~Truthy(currentAccount)) => displayedMessages = <<>>

\* The account went away while the filter was on Mine and the feed not empty
C9_Witness ==
    /\ filterType = "mine"
    /\ currentAccount = NULL
    /\ allMessages # <<>>

\* a and b are the same address but for the case of the letters
SameAddress(a, b) ==
    /\ Len(a) = Len(b)
    /\ \A i \in 1..Len(a) : UpperChar(a[i]) = UpperChar(b[i])

\* The entries of msgs sent by acct, in the order of msgs
RECURSIVE SentBy(_, _)
SentBy(msgs, acct) ==
    IF msgs = <<>> THEN <<>>
    ELSE IF SameAddress(Head(msgs).sender, acct)
         THEN <<Head(msgs)>> \o SentBy(Tail(msgs), acct)
         ELSE SentBy(Tail(msgs), acct)

ScenarioEntry(i) ==
    [sender |-> ScenarioLog[i + 1].sender, text |-> ScenarioLog[i + 1].text,
     timestamp |-> ScenarioLog[i + 1].timestamp * 1000]

\* C10: what is displayed is allMessages on All and, on Mine, the entries of
\* allMessages whose sender is the account but for letter case, in order;
\* for the log with senders A, B, A and account A: entry 2, entry 0.
C10_DisplayedIsFilteredFeed ==
    /\ filterType = "all" => displayedMessages = allMessages
    /\ filterType = "mine" => displayedMessages = SentBy(allMessages, currentAccount)
    /\ (/\ filterType = "mine"
        /\ currentAccount = U1
        /\ allMessages = <<ScenarioEntry(2), ScenarioEntry(1), ScenarioEntry(0)>>)
          => displayedMessages = <<ScenarioEntry(2), ScenarioEntry(0)>>

\* The scenario: senders A, B, A fetched, account A, filter on Mine
C10_Witness ==
    /\ filterType = "mine"
    /\ currentAccount = U1
    /\ allMessages = <<ScenarioEntry(2), ScenarioEntry(1), ScenarioEntry(0)>>
    /\ displayedMessages = <<ScenarioEntry(2), ScenarioEntry(0)>>

\* The toast, its timer and the timer reference are left alone
ToastUntouched ==
    /\ emitted' = <<>>
    /\ UNCHANGED << toast, toastTimeoutRef, timers, sinceToast >>

\* C11: the turn in which eth_requestAccounts resolves sets the account to
\* the first address of the list and emits the Success toast; the turn in
\* which it rejects, and a connectWallet call without a provider, emit an
\* Error toast each with a message of its own, and leave the account as it
\* was; a connectWallet call with a provider emits nothing until then.
C11_ConnectOutcomes ==
    [][ /\ \A a \in AccountLists : ConnectResolve(a) =>
              /\ a # <<>> => currentAccount' = a[1]
              /\ EmittedTypes' = <<"success">>
              /\ FreshToast("success", "Wallet connected successfully")'
        /\ ConnectReject =>
              /\ currentAccount' = currentAccount
              /\ EmittedTypes' = <<"error">>
              /\ FreshToast("error", "Connection rejected")'
        /\ ClickConnect =>
              /\ currentAccount' = currentAccount
              /\ hasProvider => (emitted' = <<>> /\ connecting' = connecting + 1)
              /\ ~hasProvider =>
                    /\ EmittedTypes' = <<"error">>
                    /\ FreshToast("error", "Please install MetaMask")'
                    /\ connecting' = connecting
      ]_vars

\* The wallet has just granted access to a list of two accounts
C11_Witness ==
    /\ EmittedTypes = <<"success">>
    /\ toast.msg = "Wallet connected successfully"
    /\ currentAccount = U2
    /\ connecting = 0

\* C12: an accountsChanged event is handled in every state of the session
\* with a provider, whatever flows are in flight, and sets the account to
\* the first address of the list, or to null when the list is empty; it
\* changes nothing else.
C12_AccountFollowsProvider ==
    /\ [](hasProvider => \A a \in AccountLists : ENABLED AccountsChanged(a))
    /\ [][ \A a \in AccountLists : AccountsChanged(a) =>
              /\ currentAccount' = IF a = <<>> THEN NULL ELSE a[1]
              /\ emitted' = <<>>
              /\ UNCHANGED << post, fetch, isSubmitting, isLoadingMessages,
                              message, allMessages, filterType >>
         ]_vars

\* The account went away while a post flow waits for its signer
C12_Witness ==
    /\ currentAccount = NULL
    /\ \E p \in PSlots : post[p].pc = "signer"
    /\ isSubmitting

\* C13: the turn in which eth_accounts resolves or rejects emits no toast and
\* leaves the toast state alone; it sets the account to the first address of
\* a list that is not empty and otherwise leaves the account as it was.
C13_SilentSessionCheck ==
    [][ /\ \A a \in AccountLists : CheckResolve(a) =>
              /\ ToastUntouched
              /\ currentAccount' = IF a = <<>> THEN currentAccount ELSE a[1]
        /\ CheckFail =>
              /\ ToastUntouched
              /\ currentAccount' = currentAccount
      ]_vars

\* The check is over and found nothing, after the provider had announced an
\* account
C13_Witness ==
    /\ hasProvider
    /\ checkPc = "idle"
    /\ currentAccount = U1
    /\ connecting = 0
    /\ toast.type = ""

\* C14: the turn in which the owner read fails leaves owner as it was and
\* emits no toast; the toast state is as before.
C14_FailedOwnerIsSilent ==
    [][ OwnerFail =>
              /\ owner' = owner
              /\ ToastUntouched
      ]_vars

\* The owner read is over and owner is still unset, while a toast of
\* another flow is visible
C14_Witness ==
    /\ hasProvider
    /\ ownerPc = "idle"
    /\ owner = NULL
    /\ toast.show

\* The calls in flight
ActiveFetches == {f \in Slots : fetch[f].pc # "idle"}

\* C15: the loading flag is set whenever a getAllMessages call is in flight.
C15_LoadingWhileInFlight ==
    ActiveFetches # {} => isLoadingMessages

\* The window a call that counted c entries of lg reads
WindowOf(lg, c) ==
    [k \in 1..Min(c, WINDOW) |->
        [sender |-> Messages(lg, c - k).sender, text |-> Messages(lg, c - k).text,
         timestamp |-> Messages(lg, c - k).timestamp * 1000]]

\* C16: a call that succeeds stores the window of what it counted, whatever
\* the feed holds and whatever other calls are in flight, so that of two
\* overlapping calls the one that completes last decides the feed; a call
\* leaves flight only by its own success or failure, never because another
\* call started or ended; and nothing else changes the feed.
C16_LastCompletionWins ==
    [][ /\ \A f \in Slots : FetchSucceeds(f) =>
              /\ allMessages' = WindowOf(log, Counted(f))
              /\ \A g \in Slots \ {f} : fetch'[g] = fetch[g]
        /\ \A f \in Slots : FetchFails(f) =>
              \A g \in Slots \ {f} : fetch'[g] = fetch[g]
        /\ \A g \in Slots : (fetch[g].pc # "idle" /\ fetch'[g] # fetch[g]) =>
              (FetchSucceeds(g) \/ FetchFails(g) \/ FetchCountResolve(g))
        /\ allMessages' # allMessages => \E f \in Slots : FetchSucceeds(f)
      ]_vars

\* Of two overlapping calls the one that counted the grown log has stored
\* its window; the one that counted before the log grew is still in flight
C16_Witness ==
    /\ Cardinality(ActiveFetches) = 1
    /\ \E f \in Slots : fetch[f].pc = "reads" /\ fetch[f].count = Len(log) - 1
    /\ txCount = 1
    /\ allMessages = WindowOf(log, Len(log))

\* s is in strictly descending order
Descending(s) == \A k \in 1..(Len(s) - 1) : s[k] > s[k + 1]

\* The log indices of the entries of the feed w (the timestamp of an entry
\* of the model's logs is its index plus one)
IndicesOf(w) == [k \in 1..Len(w) |-> (w[k].timestamp \div 1000) - 1]

\* C17: the reads of a call resolve one at a time in any order, and the feed
\* the call stores is in descending index order, the order in which the
\* reads were issued, whatever order they resolved in.
C17_OrderOfIssue ==
    /\ [](\A f \in Slots : \A i \in Pending(f) : ENABLED FetchReadResolve(f, i))
    /\ [][ \A f \in Slots : FetchSucceeds(f) =>
              /\ Descending(IndicesOf(allMessages'))
              /\ IndicesOf(allMessages') = FetchIndices(Counted(f))
              /\ allMessages' = WindowOf(log, Counted(f))
         ]_vars

\* The reads of indices 0 and 2 have resolved, the oldest first, and the
\* read of index 1 is still pending
C17_Witness ==
    \E f \in Slots :
        /\ fetch[f].pc = "reads"
        /\ fetch[f].count = 3
        /\ fetch[f].done = <<0, 2>>

\* C18: every post flow that leaves Idle returns to Idle, every
\* getAllMessages call in flight ends, and isSubmitting and the loading
\* flag, which disable the submit and the refresh button, are cleared again,
\* after success and after any failure: at every point of a behaviour a
\* later point exists at which no post flow is in flight and isSubmitting
\* is clear, one at which the loading flag is clear, and for every call one
\* at which it is over.
C18_FlowsTerminate ==
    /\ []<>(ActivePosts = {} /\ ~isSubmitting)
    /\ []<>(~isLoadingMessages)
    /\ \A f \in Slots : []<>(fetch[f].pc = "idle")

\* The confirmation of an included transaction has just failed, and both
\* buttons are enabled again
C18_Witness ==
    /\ EmittedTypes = <<"error">>
    /\ toast.msg = "Transaction failed. Check console."
    /\ txCount = 1
    /\ ActivePosts = {}
    /\ ~SubmitDisabled
    /\ ~RefreshDisabled

\* The turn has emitted a toast of type t
Emits(t) == \E k \in DOMAIN emitted : emitted[k].type = t

\* The turn has emitted the Success toast of postMessage
EmitsPosted ==
    \E k \in DOMAIN emitted : emitted[k].msg = "Message posted successfully!"

\* C19: the Pending toast is emitted in the turn in which the write call is
\* acknowledged, before the transaction is included and before tx.wait
\* settles, and in no other turn; the Success toast is emitted only in the
\* turn in which a flow whose transaction was confirmed returns to Idle from
\* awaiting its getAllMessages call, that call ending in the same turn and
\* the text being empty, and in every such turn; a turn in which a flow
\* fails emits no Success toast.
C19_PendingThenSuccess ==
    [][ /\ \A p \in PSlots : PostSendResolve(p) =>
              /\ EmittedTypes' = <<"loading">>
              /\ FreshToast("loading",
                            "Transaction submitted. Waiting for confirmation...")'
              /\ post'[p].pc = "wait"
              /\ ~post'[p].mined
        /\ Emits("loading")' => \E p \in PSlots : PostSendResolve(p)
        /\ EmitsPosted' =>
              /\ Last(emitted') = [type |-> "success",
                                   msg |-> "Message posted successfully!",
                                   replaced |-> Last(emitted').replaced]
              /\ \E p \in PSlots :
                    /\ post[p].pc = "fetch"
                    /\ post[p].mined
                    /\ post'[p].pc = "Idle"
                    /\ fetch[post[p].slot].pc # "idle"
                    /\ fetch'[post[p].slot].pc = "idle"
                    /\ message = <<>>
                    /\ message' = <<>>
        /\ \A p \in PSlots : (post[p].pc = "fetch" /\ post'[p].pc # "fetch") =>
              /\ EmitsPosted'
              /\ toast'.type = "success"
        /\ \A p \in PSlots : PostFails(p) => ~Emits("success")'
      ]_vars

\* A confirmed post has returned to Idle with the Success toast, and the
\* feed holds the log with the new entry
C19_Witness ==
    /\ EmittedTypes = <<"success">>
    /\ toast.msg = "Message posted successfully!"
    /\ ActivePosts = {}
    /\ message = <<>>
    /\ txCount = 1
    /\ ~isLoadingMessages
    /\ allMessages = WindowOf(log, Len(log))

\* C20: a post leaves Idle, and the write call is issued, only while an
\* account is present.
C20_WriteOnlyWithAccount ==
    [][ /\ ClickSubmit => Truthy(currentAccount)
        /\ \A p \in PSlots : \A s \in Users :
              PostSignerResolve(p, s) => Truthy(currentAccount)
      ]_vars

\* C21: an account that is present becomes absent only in the turn of an
\* accountsChanged event with an empty list.
C21_OnlyProviderClearsAccount ==
    [][ (Truthy(currentAccount) /\ ~Truthy(currentAccount')) => AccountsChanged(<<>>)
      ]_vars

\* The post flow in slot p is in Submitting or AwaitingConfirmation
PostPending(p) == post[p].pc \in {"signer", "send", "wait"}

\* C22: while a post flow awaits its signer, the acknowledgment of the write
\* call or the confirmation, the refresh button and the tabs are enabled as
\* they are without a post (refresh unless the loading flag is set, My Posts
\* unless the account is absent) and a call in flight can complete; a
\* refresh then starts a call, a successful call replaces the feed and a
\* tab sets the filter, the post flow staying where it is.
C22_ReadsDuringPost ==
    /\ [](\A p \in PSlots : PostPending(p) =>
              /\ ~isLoadingMessages => ENABLED ClickRefresh
              /\ ENABLED SetFilter("all")
              /\ Truthy(currentAccount) => ENABLED SetFilter("mine")
              /\ \A f \in Slots : fetch[f].pc = "reads" => ENABLED FetchReadsResolve(f))
    /\ [][ \A p \in PSlots : PostPending(p) =>
              /\ ClickRefresh =>
                    /\ \E f \in Slots : fetch[f].pc = "idle" /\ fetch'[f].pc = "count"
                    /\ isLoadingMessages'
                    /\ post' = post
              /\ \A ft \in {"all", "mine"} : SetFilter(ft) =>
                    /\ filterType' = ft
                    /\ post' = post
              /\ \A f \in Slots : FetchSucceeds(f) =>
                    /\ allMessages' = WindowOf(log, Counted(f))
                    /\ post' = post
         ]_vars

\* The flow still awaits the confirmation of its transaction, the feed
\* already holds the entry the transaction added, and the filter is on Mine
C22_Witness ==
    /\ \E p \in PSlots : post[p].pc = "wait" /\ post[p].mined
    /\ txCount = 1
    /\ allMessages = WindowOf(log, Len(log))
    /\ filterType = "mine"
    /\ isSubmitting

\* C23: a click on a tab sets the filter and changes nothing else: no call
\* starts, and the feed, the account, the owner, the loading flag and the
\* post flow are as before; the feed changes in no turn but one in which a
\* getAllMessages call succeeds.
C23_FilterOnlyFilters ==
    [][ /\ \A ft \in {"all", "mine"} : SetFilter(ft) =>
              /\ filterType' = ft
              /\ emitted' = <<>>
              /\ UNCHANGED << fetch, isLoadingMessages, allMessages, currentAccount,
                              owner, post, isSubmitting, message, log >>
        /\ allMessages' # allMessages => \E f \in Slots : FetchSucceeds(f)
      ]_vars

\* The filter is on Mine over a fetched feed with entries of another
\* sender, and no call is in flight
C23_Witness ==
    /\ filterType = "mine"
    /\ allMessages # <<>>
    /\ displayedMessages # allMessages
    /\ ActiveFetches = {}
    /\ ~isLoadingMessages

\* C24: the turn in which the getAllMessages call a confirmed post awaits
\* fails emits the Error toast of the read and then the Success toast of the
\* post, which replaces it and is the toast left visible, with one timer of
\* the full delay; the flow is back in Idle, isSubmitting is clear, the text
\* is empty and the feed is as before.
C24_SuccessAfterFailedRefresh ==
    [][ \A f \in Slots : (FetchFails(f) /\ Awaiting(f) # {}) =>
              /\ emitted' = << [type |-> "error", msg |-> "Failed to fetch messages",
                                replaced |-> toast.show],
                               [type |-> "success", msg |-> "Message posted successfully!",
                                replaced |-> TRUE] >>
              /\ FreshToast("success", "Message posted successfully!")'
              /\ \A p \in Awaiting(f) : post'[p] = IdlePost
              /\ ActivePosts' = {}
              /\ ~isSubmitting'
              /\ message' = <<>>
              /\ allMessages' = allMessages
      ]_vars

\* The refresh of a confirmed post has just failed: the feed lacks the new
\* entry and the Success toast shows
C24_Witness ==
    /\ EmittedTypes = <<"error", "success">>
    /\ toast = [show |-> TRUE, type |-> "success", msg |-> "Message posted successfully!"]
    /\ ActivePosts = {}
    /\ message = <<>>
    /\ txCount = 1
    /\ Len(allMessages) < Len(log)

\* Nothing of the session, the feed and the flows changes
FlowsUntouched ==
    UNCHANGED << fetch, isLoadingMessages, allMessages, owner, ownerPc,
                 currentAccount, checkPc, post, isSubmitting, message,
                 connecting, log, txCount, filterType >>

\* The turn has emitted the toast of connectWallet without a provider
EmitsNoProvider ==
    \E k \in DOMAIN emitted : emitted[k].msg = "Please install MetaMask"

\* C25: without a provider getAllMessages, getOwner,
\* checkIfWalletIsConnected and postMessage with a text that is not blank
\* change nothing and emit no toast, so that the loading flag is never set,
\* no post flow and no call is ever in flight, and the feed, the owner and
\* the account keep their initial values; connectWallet emits the Error
\* toast 'Please install MetaMask' and changes nothing else, and no other
\* operation emits that toast.
C25_NoProviderNoEffect ==
    /\ [](~hasProvider =>
              /\ ~isLoadingMessages
              /\ ActiveFetches = {}
              /\ ActivePosts = {}
              /\ ~isSubmitting
              /\ allMessages = <<>>
              /\ owner = NULL
              /\ currentAccount = NULL
              /\ ownerPc = "idle"
              /\ checkPc = "idle"
              /\ connecting = 0)
    /\ [][ ~hasProvider =>
              /\ (\/ ClickRefresh
                  \/ CallGetOwner
                  \/ CallCheckIfWalletIsConnected
                  \/ PostMessageText) => (FlowsUntouched /\ ToastUntouched)
              /\ ClickConnect =>
                    /\ EmittedTypes' = <<"error">>
                    /\ FreshToast("error", "Please install MetaMask")'
                    /\ FlowsUntouched
              /\ EmitsNoProvider' => ClickConnect
         ]_vars

\* Without a provider and with a text in place, an operation has run since
\* the toast of connectWallet came up and has left it as it was
C25_Witness ==
    /\ ~hasProvider
    /\ message = <<"h">>
    /\ emitted = <<>>
    /\ toast = [show |-> TRUE, type |-> "error", msg |-> "Please install MetaMask"]
    /\ sinceToast = 0

TypeOK ==
    /\ hasProvider \in BOOLEAN
    /\ txCount \in 0..MaxTx
    /\ currentAccount \in Users \cup {NULL, UNDEFINED}
    /\ owner \in {NULL, OwnerAddress}
    /\ message \in Texts
    /\ isSubmitting \in BOOLEAN
    /\ isLoadingMessages \in BOOLEAN
    /\ filterType \in {"all", "mine"}
    /\ toast.show \in BOOLEAN
    /\ toast.type \in {"", "success", "error", "loading"}
    /\ sinceToast \in 0..TOAST_DELAY
    /\ \A f \in Slots : fetch[f].pc \in {"idle", "count", "reads"}
    /\ \A p \in PSlots : post[p].pc \in {"Idle", "signer", "send", "wait", "fetch"}
    /\ connecting \in 0..MaxConnect
    /\ checkPc \in {"idle", "await"}
    /\ ownerPc \in {"idle", "await"}

\* A slot is free whenever the code starts a getAllMessages call
SlotsSuffice ==
    /\ (hasProvider /\ ~RefreshDisabled) => HasFreeSlot
    /\ (\E p \in PSlots : post[p].pc = "wait") => HasFreeSlot
    /\ ~SubmitDisabled => HasFreePost

====
